---- MODULE Spec2Model ----
(***************************************************************************)
(* Checkpoint mirroring (SaveCheckpointsToS3Callback,                      *)
(* SaveCheckpointsToGCSCallback) and latest-checkpoint retrieval           *)
(* (CloudCheckpointLoader) of resuming_training.ipynb.                     *)
(*                                                                         *)
(* A Python str is a sequence of pieces, so that "/".join, str.split("/"),  *)
(* the substring test `a in b` and the lexicographic order of a bucket     *)
(* listing are computed, not assumed.  A piece is one character, except    *)
(* the run name and the literal "checkpoint-", which no operation of the   *)
(* code cuts and which no other piece shares a first character with.       *)
(***************************************************************************)
EXTENDS Integers, Sequences, FiniteSets, TLC

VARIABLES
    fs,              \* local filesystem: [files: path -> bytes, dirs: set of paths]
    s3_bucket_name,  \* the configured S3 bucket name ("To update")
    s3,              \* the S3 store: bucket name -> (key -> [data, t])
    gcs,             \* the GCS bucket gcs_bucket_name: key -> [data, t]
    clock,           \* the stores' clock, in ticks
    pc,              \* position of the notebook session
    loader,          \* cloud_checkpoint_loader: NoLoader or [bucket_type]
    custom_checkpoint, \* what download_checkpoints returned to the notebook
    global_step,     \* TrainerState.global_step of the last local save (0: none)
    callbacks,       \* callbacks of the current save event not yet called
    published,       \* history: per backend, the on_save calls so far
    faults,          \* history: the calls in which the network failed
    last             \* history: the last operation and what it did

vars == <<fs, s3_bucket_name, s3, gcs, clock, pc, loader, custom_checkpoint,
          global_step, callbacks, published, faults, last>>

----------------------------------------------------------------------------
(* Bounds of the model *)

MaxTime == 2          \* the clock stops advancing here
TicksPerSecond == 2   \* clock ticks in one second of strftime('%s')
MaxSaves == 2         \* checkpoints the Trainer saves
MaxFaults == 1        \* calls in which the network fails

----------------------------------------------------------------------------
(* Strings *)

Slash == <<"/">>

\* The pieces the model uses, in ASCII order of their first characters.
CharOrder ==
    <<"-", "/", "0", "1", "2", "3", "4", "5", "6", "7", "8", "9",
      "a", "b", "checkpoint-", "f", "s", "trainer-demo-checkpointing">>

Ord(c) == CHOOSE i \in 1..Len(CharOrder) : CharOrder[i] = c

\* a < b for Python str / UTF-8 binary order of object keys
RECURSIVE StrLess(_, _)
StrLess(a, b) ==
    IF b = <<>> THEN FALSE
    ELSE IF a = <<>> THEN TRUE
    ELSE IF Head(a) = Head(b) THEN StrLess(Tail(a), Tail(b))
    ELSE Ord(Head(a)) < Ord(Head(b))

\* "/".join(parts)
RECURSIVE Join(_)
Join(parts) ==
    IF parts = <<>> THEN <<>>
    ELSE IF Len(parts) = 1 THEN parts[1]
    ELSE parts[1] \o Slash \o Join(Tail(parts))

\* s.split("/")
RECURSIVE SplitFrom(_, _)
SplitFrom(s, cur) ==
    IF s = <<>> THEN <<cur>>
    ELSE IF Head(s) = "/" THEN <<cur>> \o SplitFrom(Tail(s), <<>>)
    ELSE SplitFrom(Tail(s), Append(cur, Head(s)))

Split(s) == SplitFrom(s, <<>>)

\* sub in s
Contains(sub, s) ==
    \E i \in 0..(Len(s) - Len(sub)) : SubSeq(s, i + 1, i + Len(sub)) = sub

Digit(d) == CharOrder[d + 3]

\* "{}".format(n) for an int n >= 0
RECURSIVE StrOfInt(_)
StrOfInt(n) ==
    IF n < 10 THEN <<Digit(n)>>
    ELSE Append(StrOfInt(n \div 10), Digit(n % 10))

\* Python's None (no str equals it)
None == <<"None">>

----------------------------------------------------------------------------
(* Configuration of the notebook *)

training_name == <<"trainer-demo-checkpointing">>

DefaultS3Bucket == "hf-demo-s3-checkpointing-sagemaker"

\* the names s3_bucket_name may be updated to
S3BucketNames == {DefaultS3Bucket, "my-s3-bucket"}

\* the bucket name written inside __get_last_checkpoint_from_s3
ListedS3Bucket == "hf-demo-s3-checkpointing-sagemaker"

BucketTypes == {"s3", "gcs", "azure"}

\* global_step values at which the Trainer saves (save_strategy = "steps")
Steps == {100, 900, 1000}

\* "{}/checkpoint-{}".format(training_name, state.global_step)
model_checkpoint(step) ==
    training_name \o Slash
        \o <<"checkpoint-">> \o StrOfInt(step)

----------------------------------------------------------------------------
(* Local filesystem *)

EmptyFS == [files |-> <<>>, dirs |-> {}]

\* f with f[k] = v
Put(f, k, v) == [x \in (DOMAIN f) \cup {k} |-> IF x = k THEN v ELSE f[x]]

IsPrefix(p, s) == Len(p) <= Len(s) /\ SubSeq(s, 1, Len(p)) = p

\* every path of the filesystem f
Paths(f) == (DOMAIN f.files) \cup f.dirs

\* os.listdir(dir): the names of the entries directly inside dir
listdir(f, dir) ==
    { SubSeq(p, Len(dir) + 2, Len(p)) :
        p \in { q \in Paths(f) :
                  /\ IsPrefix(dir \o Slash, q)
                  /\ Len(q) > Len(dir) + 1
                  /\ \A i \in (Len(dir) + 2)..Len(q) : q[i] # "/" } }

\* the regular files directly and recursively inside dir: path -> bytes
FilesUnder(f, dir) ==
    [p \in { q \in DOMAIN f.files : IsPrefix(dir \o Slash, q) } |-> f.files[p]]

\* the directory holding path p
Parent(p) ==
    LET parts == Split(p) IN Join(SubSeq(parts, 1, Len(parts) - 1))

\* every ancestor directory of p, and p
RECURSIVE WithParents(_)
WithParents(p) ==
    IF Len(Split(p)) <= 1 THEN {p} ELSE {p} \cup WithParents(Parent(p))

\* os.makedirs(path, exist_ok=True)
makedirs(f, path) == [f EXCEPT !.dirs = @ \cup WithParents(path)]

\* the orders in which os.listdir may enumerate the names S
Orders(S) ==
    { o \in [1..Cardinality(S) -> S] :
        \A i, j \in 1..Cardinality(S) : i # j => o[i] # o[j] }

\* what the Trainer writes into one checkpoint directory:
\* regular files, and sub-directories with files of their own
Shapes ==
    { [files |-> {<<"a">>, <<"b">>}, dirs |-> {}],
      [files |-> {<<"a">>, <<"s", "/", "f">>}, dirs |-> {<<"s">>}] }

\* the bytes the Trainer writes at step `step` into the file `rel`
Bytes(step, rel) == <<step, rel>>

\* The Trainer saves a checkpoint: {training_name}/checkpoint-{step}
write_checkpoint(f, step, shape) ==
    LET dir == model_checkpoint(step)
        new == { Join(<<dir, rel>>) : rel \in shape.files }
    IN  [files |-> [p \in (DOMAIN f.files) \cup new |->
                      IF p \in new
                      THEN Bytes(step, SubSeq(p, Len(dir) + 2, Len(p)))
                      ELSE f.files[p]],
         dirs  |-> f.dirs \cup WithParents(dir)
                      \cup { Join(<<dir, d>>) : d \in shape.dirs }]

----------------------------------------------------------------------------
(* The object stores *)

EmptyBucket == <<>>

\* the failures of one call: the bucket cannot be reached at all, or the
\* failAt-th transfer of the call fails (0: none)
NoFault == [reachable |-> TRUE, failAt |-> 0]

Faults(n, used) ==
    IF used >= MaxFaults THEN {NoFault}
    ELSE { [reachable |-> TRUE, failAt |-> k] : k \in 0..n }
             \cup { [reachable |-> FALSE, failAt |-> 0] }

\* int(obj['LastModified'].strftime('%s')): whole seconds
Seconds(t) == t \div TicksPerSecond

Ok == "ok"


\* s3_client.upload_file(Filename, Bucket, Key) at store time t
s3_upload_file(store, f, Filename, Bucket, Key, fails, t) ==
    IF Filename \in f.dirs
    THEN [err |-> "IsADirectoryError", store |-> store]
    ELSE IF Filename \notin DOMAIN f.files
    THEN [err |-> "FileNotFoundError", store |-> store]
    ELSE IF fails
    THEN [err |-> "S3UploadFailedError", store |-> store]
    ELSE [err |-> Ok,
          store |-> [store EXCEPT ![Bucket] =
                        Put(@, Key, [data |-> f.files[Filename], t |-> t])]]

\* the loop of SaveCheckpointsToS3Callback.on_save, from its i-th file on;
\* acc: the store, the upload calls issued so far, the store's time (the
\* uploads of one call carry one timestamp)
RECURSIVE s3_upload_loop(_, _, _, _, _, _, _)
s3_upload_loop(acc, f, bucket_name, model_ckpt, order, i, fault) ==
    IF i > Len(order)
    THEN [err |-> Ok, store |-> acc.store, calls |-> acc.calls, t |-> acc.t]
    ELSE
        LET filename_path == Join(<<model_ckpt, order[i]>>)
            r == s3_upload_file(acc.store, f, filename_path, bucket_name,
                                filename_path,
                                ~fault.reachable \/ fault.failAt = i, acc.t)
            calls == Append(acc.calls, filename_path)
        IN  IF r.err # Ok
            THEN [err |-> r.err, store |-> r.store, calls |-> calls, t |-> acc.t]
            ELSE s3_upload_loop(
                     [store |-> r.store, calls |-> calls, t |-> acc.t],
                     f, bucket_name, model_ckpt, order, i + 1, fault)

\* an on_save that removes what it uploaded when a transfer fails
S3_on_save_rollback(store, f, bucket_name, step, order, fault, t) ==
    LET r == s3_upload_loop([store |-> store, calls |-> <<>>, t |-> t],
                            f, bucket_name, model_checkpoint(step), order, 1,
                            fault)
    IN  IF r.err = Ok THEN r ELSE [r EXCEPT !.store = store]

\* SaveCheckpointsToS3Callback.on_save(args, state, control) with
\* state.global_step = step; os.listdir enumerates in `order`
S3_on_save(store, f, bucket_name, step, order, fault, t) ==
    LET model_ckpt == model_checkpoint(step) IN
    IF model_ckpt \notin f.dirs
    THEN [err |-> "FileNotFoundError", store |-> store, calls |-> <<>>, t |-> t]
    ELSE s3_upload_loop([store |-> store, calls |-> <<>>, t |-> t],
                        f, bucket_name, model_ckpt, order, 1, fault)

\* an upload that passes over a directory instead of raising
gcs_upload_skipping_dirs(bucket, f, name, filename, fails, t) ==
    IF filename \in f.dirs THEN [err |-> Ok, bucket |-> bucket]
    ELSE IF fails THEN [err |-> "GoogleCloudError", bucket |-> bucket]
    ELSE [err |-> Ok,
          bucket |-> Put(bucket, name, [data |-> f.files[filename], t |-> t])]

\* blob = bucket.blob(name); blob.upload_from_filename(filename)
gcs_upload_from_filename(bucket, f, name, filename, fails, t) ==
    IF filename \in f.dirs
    THEN [err |-> "IsADirectoryError", bucket |-> bucket]
    ELSE IF filename \notin DOMAIN f.files
    THEN [err |-> "FileNotFoundError", bucket |-> bucket]
    ELSE IF fails
    THEN [err |-> "GoogleCloudError", bucket |-> bucket]
    ELSE [err |-> Ok,
          bucket |-> Put(bucket, name, [data |-> f.files[filename], t |-> t])]

\* the loop of SaveCheckpointsToGCSCallback.on_save, from its i-th file on
RECURSIVE gcs_upload_loop(_, _, _, _, _, _)
gcs_upload_loop(acc, f, model_ckpt, order, i, fault) ==
    IF i > Len(order)
    THEN [err |-> Ok, bucket |-> acc.bucket, calls |-> acc.calls, t |-> acc.t]
    ELSE
        LET filename_path == Join(<<model_ckpt, order[i]>>)
            r == gcs_upload_from_filename(acc.bucket, f, filename_path,
                                          filename_path, fault.failAt = i, acc.t)
            calls == Append(acc.calls, filename_path)
        IN  IF r.err # Ok
            THEN [err |-> r.err, bucket |-> r.bucket, calls |-> calls, t |-> acc.t]
            ELSE gcs_upload_loop(
                     [bucket |-> r.bucket, calls |-> calls, t |-> acc.t],
                     f, model_ckpt, order, i + 1, fault)

\* SaveCheckpointsToGCSCallback.on_save(args, state, control)
GCS_on_save(bucket, f, step, order, fault, t) ==
    LET model_ckpt == model_checkpoint(step) IN
    IF ~fault.reachable   \* gcs_client.get_bucket(gcs_bucket_name) raises
    THEN [err |-> "NotFound", bucket |-> bucket, calls |-> <<>>, t |-> t]
    ELSE IF model_ckpt \notin f.dirs
    THEN [err |-> "FileNotFoundError", bucket |-> bucket, calls |-> <<>>, t |-> t]
    ELSE gcs_upload_loop([bucket |-> bucket, calls |-> <<>>, t |-> t],
                         f, model_ckpt, order, 1, fault)

----------------------------------------------------------------------------
(* CloudCheckpointLoader *)

\* the objects of a bucket as a listing returns them: in the order of
\* their keys
RECURSIVE Listing(_)
Listing(bucket) ==
    IF DOMAIN bucket = {} THEN <<>>
    ELSE LET k == CHOOSE x \in DOMAIN bucket :
                      \A y \in (DOMAIN bucket) \ {x} : StrLess(x, y)
         IN  <<[key |-> k, t |-> bucket[k].t]>>
                 \o Listing([x \in (DOMAIN bucket) \ {k} |-> bucket[x]])

\* sorted(contents, key=lambda obj: int(obj[...].strftime('%s'))):
\* ascending in whole seconds, equal seconds keep the listing's order
RECURSIVE sorted_by_seconds(_)
sorted_by_seconds(contents) ==
    IF contents = <<>> THEN <<>>
    ELSE LET n == Len(contents)
             x == contents[n]
             s == sorted_by_seconds(SubSeq(contents, 1, n - 1))
             k == Cardinality({ i \in 1..(n - 1) :
                                  Seconds(s[i].t) <= Seconds(x.t) })
         IN  SubSeq(s, 1, k) \o <<x>> \o SubSeq(s, k + 1, n - 1)

KeysOf(contents) == [i \in 1..Len(contents) |-> contents[i].key]

\* [key for key in sorted_keys if checkpoint_dir in key]
select_checkpoint_files(checkpoint_dir, sorted_keys) ==
    LET keep(key) == Contains(checkpoint_dir, key)
    IN  SelectSeq(sorted_keys, keep)

\* the tail both __get_last_checkpoint_from_* share: the directory of the
\* last sorted key, and the keys holding its name
last_checkpoint_of(sorted_keys) ==
    LET parts == Split(sorted_keys[Len(sorted_keys)]) IN
    IF Len(parts) < 2
    THEN [err |-> "IndexError", checkpoint_dir |-> <<>>, checkpoint_files |-> <<>>]
    ELSE [err |-> Ok, checkpoint_dir |-> parts[2],
          checkpoint_files |-> select_checkpoint_files(parts[2], sorted_keys)]

NoCheckpoint(err) ==
    [err |-> err, checkpoint_dir |-> <<>>, checkpoint_files |-> <<>>]

\* CloudCheckpointLoader.__get_last_checkpoint_from_s3
get_last_checkpoint_from_s3(store, fault) ==
    IF ~fault.reachable THEN NoCheckpoint("ClientError")
    ELSE LET contents == Listing(store[ListedS3Bucket]) IN
         IF contents = <<>> THEN NoCheckpoint("KeyError")  \* no "Contents"
         ELSE last_checkpoint_of(KeysOf(sorted_by_seconds(contents)))

\* CloudCheckpointLoader.__get_last_checkpoint_from_gcs
get_last_checkpoint_from_gcs(bucket) ==
    LET blobs == Listing(bucket) IN
    IF blobs = <<>> THEN NoCheckpoint("IndexError")  \* sorted_keys[-1]
    ELSE last_checkpoint_of(KeysOf(sorted_by_seconds(blobs)))

\* writing the downloaded bytes to the local path Filename
write_local(f, Filename, data) ==
    IF Parent(Filename) \notin f.dirs \/ Filename \in f.dirs
    THEN [err |-> "FileNotFoundError", fs |-> f]
    ELSE [err |-> Ok, fs |-> [f EXCEPT !.files = Put(@, Filename, data)]]

\* s3_client.download_file(Bucket, Key, Filename)
s3_download_file(store, f, Bucket, Key, Filename, fails) ==
    IF fails \/ Key \notin DOMAIN store[Bucket]
    THEN [err |-> "ClientError", fs |-> f]
    ELSE write_local(f, Filename, store[Bucket][Key].data)

\* bucket.blob(name).download_to_filename(filename)
gcs_download_to_filename(bucket, f, name, filename, fails) ==
    IF fails \/ name \notin DOMAIN bucket
    THEN [err |-> "NotFound", fs |-> f]
    ELSE write_local(f, filename, bucket[name].data)

\* for file in checkpoint_files: s3_client.download_file(...), from the i-th
RECURSIVE s3_download_loop(_, _, _, _, _, _, _)
s3_download_loop(f, got, store, bucket_name, files, i, fault) ==
    IF i > Len(files) THEN [err |-> Ok, fs |-> f, got |-> got]
    ELSE LET r == s3_download_file(store, f, bucket_name, files[i], files[i],
                                   fault.failAt = i)
         IN  IF r.err # Ok THEN [err |-> r.err, fs |-> r.fs, got |-> got]
             ELSE s3_download_loop(r.fs, Append(got, files[i]), store,
                                   bucket_name, files, i + 1, fault)

\* for file in checkpoint_files: blob.download_to_filename(file), from the i-th
RECURSIVE gcs_download_loop(_, _, _, _, _, _)
gcs_download_loop(f, got, bucket, files, i, fault) ==
    IF i > Len(files) THEN [err |-> Ok, fs |-> f, got |-> got]
    ELSE LET r == gcs_download_to_filename(bucket, f, files[i], files[i],
                                           fault.failAt = i)
         IN  IF r.err # Ok THEN [err |-> r.err, fs |-> r.fs, got |-> got]
             ELSE gcs_download_loop(r.fs, Append(got, files[i]), bucket,
                                    files, i + 1, fault)

\* what download_checkpoints hands back when it ends without an exception:
\* the method has no return statement
download_checkpoints_return(path_to_checkpoint) == None

\* a download_checkpoints that creates the run directory before it lists
Failed_after_mkdir(err, f) ==
    [err |-> err, fs |-> makedirs(f, training_name), ret |-> None,
     checkpoint_dir |-> <<>>, checkpoint_files |-> <<>>, got |-> <<>>]

Failed(err, f) ==
    [err |-> err, fs |-> f, ret |-> None, checkpoint_dir |-> <<>>,
     checkpoint_files |-> <<>>, got |-> <<>>]

\* the two branches of download_checkpoints after the selection `sel`
Downloaded(sel, r) ==
    [err |-> r.err, fs |-> r.fs,
     ret |-> IF r.err = Ok
             THEN download_checkpoints_return(
                      Join(<<training_name, sel.checkpoint_dir>>))
             ELSE None,
     checkpoint_dir |-> sel.checkpoint_dir,
     checkpoint_files |-> sel.checkpoint_files, got |-> r.got]

\* CloudCheckpointLoader.download_checkpoints(self)
download_checkpoints_of(bucket_type, store, bucket_name, gcs_bucket, f, fault) ==
    IF bucket_type = "s3" THEN
        LET sel == get_last_checkpoint_from_s3(store, fault) IN
        IF sel.err # Ok THEN Failed(sel.err, f)
        ELSE LET path_to_checkpoint == Join(<<training_name, sel.checkpoint_dir>>)
                 f1 == makedirs(f, path_to_checkpoint)
             IN  Downloaded(sel,
                     s3_download_loop(f1, <<>>, store, bucket_name,
                                      sel.checkpoint_files, 1, fault))
    ELSE IF bucket_type = "gcs" THEN
        IF ~fault.reachable THEN Failed("NotFound", f)  \* get_bucket raises
        ELSE
        LET sel == get_last_checkpoint_from_gcs(gcs_bucket) IN
        IF sel.err # Ok THEN Failed(sel.err, f)
        ELSE LET path_to_checkpoint == Join(<<training_name, sel.checkpoint_dir>>)
                 f1 == makedirs(f, path_to_checkpoint)
             IN  Downloaded(sel,
                     gcs_download_loop(f1, <<>>, gcs_bucket,
                                       sel.checkpoint_files, 1, fault))
    ELSE Failed("ValueError", f)

\* an __init__ without its assertion
init_accepts_any(bucket_type) == bucket_type \in BucketTypes

\* CloudCheckpointLoader.__init__(self, bucket_type): the assertion
init_accepts(bucket_type) == bucket_type \in {"s3", "gcs"}

----------------------------------------------------------------------------
(* The notebook session *)

NoLoader == [bound |-> FALSE, bucket_type |-> ""]

NoOp ==
    [op |-> "none", bt |-> "", step |-> 0, err |-> Ok, dir |-> <<>>,
     keys |-> <<>>, done |-> <<>>, ret |-> None]

Init ==
    /\ fs = EmptyFS
    /\ s3_bucket_name \in S3BucketNames
    /\ s3 = [n \in S3BucketNames |-> EmptyBucket]
    /\ gcs = EmptyBucket
    /\ clock = 0
    /\ pc = "start"
    /\ loader = NoLoader
    /\ custom_checkpoint = None
    /\ global_step = 0
    /\ callbacks = <<>>
    /\ published = [s3 |-> <<>>, gcs |-> <<>>]
    /\ faults = 0
    /\ last = NoOp

\* the notebook is run again from its first cell, on a machine whose disk
\* holds no checkpoint (what retrieving from a bucket is for)
new_session ==
    /\ pc # "start"
    /\ fs' = EmptyFS
    /\ pc' = "start"
    /\ loader' = NoLoader
    /\ custom_checkpoint' = None
    /\ global_step' = 0
    /\ callbacks' = <<>>
    /\ last' = [NoOp EXCEPT !.op = "new_session"]
    /\ UNCHANGED <<s3_bucket_name, s3, gcs, clock, published, faults>>

\* load_from_checkpoint = False: the model comes from the hub
load_from_hub ==
    /\ pc = "start"
    /\ pc' = "training"
    /\ last' = [NoOp EXCEPT !.op = "load_from_hub"]
    /\ UNCHANGED <<fs, s3_bucket_name, s3, gcs, clock, loader,
                   custom_checkpoint, global_step, callbacks, published, faults>>

\* load_from_checkpoint = True:
\* cloud_checkpoint_loader = CloudCheckpointLoader(bucket_type)
init_loader ==
    /\ pc = "start"
    /\ \E bucket_type \in BucketTypes :
         IF init_accepts(bucket_type)
         THEN /\ loader' = [bound |-> TRUE, bucket_type |-> bucket_type]
              /\ pc' = "constructed"
              /\ last' = [NoOp EXCEPT !.op = "init", !.bt = bucket_type]
         ELSE /\ loader' = NoLoader
              /\ pc' = "aborted"
              /\ last' = [NoOp EXCEPT !.op = "init", !.bt = bucket_type,
                                      !.err = "AssertionError"]
    /\ UNCHANGED <<fs, s3_bucket_name, s3, gcs, clock, custom_checkpoint,
                   global_step, callbacks, published, faults>>

\* custom_checkpoint = cloud_checkpoint_loader.download_checkpoints()
download_checkpoints ==
    /\ pc = "constructed"
    /\ loader.bound
    /\ \E fault \in Faults(Cardinality(DOMAIN s3[ListedS3Bucket])
                               + Cardinality(DOMAIN gcs), faults) :
         LET r == download_checkpoints_of(loader.bucket_type, s3,
                                          s3_bucket_name, gcs, fs, fault)
         IN  /\ fs' = r.fs
             /\ last' = [op |-> "download", bt |-> loader.bucket_type,
                         step |-> 0, err |-> r.err, dir |-> r.checkpoint_dir,
                         keys |-> r.checkpoint_files, done |-> r.got,
                         ret |-> r.ret]
             /\ faults' = IF fault = NoFault THEN faults ELSE faults + 1
             /\ IF r.err = Ok
                THEN pc' = "downloaded" /\ custom_checkpoint' = r.ret
                ELSE pc' = "aborted" /\ custom_checkpoint' = custom_checkpoint
    /\ UNCHANGED <<s3_bucket_name, s3, gcs, clock, loader, global_step,
                   callbacks, published>>

\* a resume path that goes on to load after a failed download
from_pretrained_after_failure ==
    /\ pc \in {"downloaded", "aborted"}
    /\ last.op = "download"
    /\ pc' = "aborted"
    /\ last' = [NoOp EXCEPT !.op = "load", !.ret = custom_checkpoint,
                            !.err = "OSError"]
    /\ UNCHANGED <<fs, s3_bucket_name, s3, gcs, clock, loader,
                   custom_checkpoint, global_step, callbacks, published, faults>>

\* model = AutoModelForSequenceClassification.from_pretrained(
\*             custom_checkpoint, num_labels=2, local_files_only=True)
from_pretrained ==
    /\ pc = "downloaded"
    /\ IF custom_checkpoint # None /\ custom_checkpoint \in fs.dirs
       THEN /\ pc' = "training"
            /\ last' = [NoOp EXCEPT !.op = "load", !.ret = custom_checkpoint]
       ELSE /\ pc' = "aborted"
            /\ last' = [NoOp EXCEPT !.op = "load", !.ret = custom_checkpoint,
                                    !.err = "OSError"]
    /\ UNCHANGED <<fs, s3_bucket_name, s3, gcs, clock, loader,
                   custom_checkpoint, global_step, callbacks, published, faults>>

\* trainer.train() reaches a save step: the Trainer writes
\* {training_name}/checkpoint-{step}, then calls the callbacks in order
trainer_save ==
    /\ pc = "training"
    /\ callbacks = <<>>
    /\ Len(published.s3) < MaxSaves
    /\ \E step \in Steps, shape \in Shapes, later \in 0..1 :
         /\ step > global_step
         /\ clock + later <= MaxTime
         /\ clock' = clock + later
         /\ fs' = write_checkpoint(fs, step, shape)
         /\ global_step' = step
         /\ last' = [NoOp EXCEPT !.op = "trainer_save", !.step = step]
    /\ callbacks' = <<"s3", "gcs">>
    /\ UNCHANGED <<s3_bucket_name, s3, gcs, pc, loader, custom_checkpoint,
                   published, faults>>

\* the record of one on_save call: its step, its time, the regular files
\* its checkpoint directory held, and whether it ended without an exception
Published(step, f, t, err) ==
    [step |-> step, t |-> t, files |-> FilesUnder(f, model_checkpoint(step)),
     ok |-> err = Ok]

\* save_checkpoints_to_s3.on_save(args, state, control)
on_save_S3 ==
    /\ pc = "training"
    /\ callbacks # <<>> /\ Head(callbacks) = "s3"
    /\ \E order \in Orders(listdir(fs, model_checkpoint(global_step))) :
         /\ \E fault \in Faults(Len(order), faults) :
              LET r == S3_on_save(s3, fs, s3_bucket_name, global_step, order,
                                  fault, clock)
              IN  /\ s3' = r.store
                  /\ faults' = IF fault = NoFault THEN faults ELSE faults + 1
                  /\ published' = [published EXCEPT !.s3 =
                         Append(@, Published(global_step, fs, clock, r.err))]
                  /\ last' = [NoOp EXCEPT !.op = "on_save", !.bt = "s3",
                                 !.step = global_step, !.err = r.err,
                                 !.keys = r.calls]
                  /\ IF r.err = Ok
                     THEN callbacks' = Tail(callbacks) /\ pc' = pc
                     ELSE callbacks' = <<>> /\ pc' = "aborted"
    /\ UNCHANGED <<fs, s3_bucket_name, gcs, clock, loader,
                   custom_checkpoint, global_step>>

\* save_checkpoints_to_gcs.on_save(args, state, control)
on_save_GCS ==
    /\ pc = "training"
    /\ callbacks # <<>> /\ Head(callbacks) = "gcs"
    /\ \E order \in Orders(listdir(fs, model_checkpoint(global_step))) :
         /\ \E fault \in Faults(Len(order), faults) :
              LET r == GCS_on_save(gcs, fs, global_step, order, fault,
                                   clock)
              IN  /\ gcs' = r.bucket
                  /\ faults' = IF fault = NoFault THEN faults ELSE faults + 1
                  /\ published' = [published EXCEPT !.gcs =
                         Append(@, Published(global_step, fs, clock, r.err))]
                  /\ last' = [NoOp EXCEPT !.op = "on_save", !.bt = "gcs",
                                 !.step = global_step, !.err = r.err,
                                 !.keys = r.calls]
                  /\ IF r.err = Ok
                     THEN callbacks' = Tail(callbacks) /\ pc' = pc
                     ELSE callbacks' = <<>> /\ pc' = "aborted"
    /\ UNCHANGED <<fs, s3_bucket_name, s3, clock, loader,
                   custom_checkpoint, global_step>>

Next ==
    \/ new_session
    \/ load_from_hub
    \/ init_loader
    \/ download_checkpoints
    \/ from_pretrained
    \/ trainer_save
    \/ on_save_S3
    \/ on_save_GCS

Spec == Init /\ [][Next]_vars

----------------------------------------------------------------------------
(* Properties *)

Backends == {"s3", "gcs"}

\* the bucket on_save writes to
WrittenBucket(b) == IF b = "s3" THEN s3[s3_bucket_name] ELSE gcs

\* the bucket download_checkpoints lists
ListedBucket(b) == IF b = "s3" THEN s3[ListedS3Bucket] ELSE gcs

LastPublished(b) == published[b][Len(published[b])]

SetOf(seq) == { seq[i] : i \in 1..Len(seq) }

\* the checkpoint-directory segment of a key
DirSegment(key) == Split(key)[2]

NetworkErrors ==
    {"S3UploadFailedError", "GoogleCloudError", "NotFound", "ClientError"}

\* C1 (as claimed): a checkpoint directory D, with or without
\* sub-directories, published by on_save into an empty bucket and fetched
\* right after by download_checkpoints (no network failure, the bucket name
\* left as shipped) comes back: the download ends without error and the
\* local checkpoint directory holds D's relative paths and contents.
C1_RoundTrip ==
    (/\ last.op = "download"
     /\ faults = 0
     /\ s3_bucket_name = ListedS3Bucket
     /\ last.bt \in Backends
     /\ Len(published[last.bt]) = 1)
    => (/\ last.err = Ok
        /\ FilesUnder(fs, model_checkpoint(LastPublished(last.bt).step))
              = LastPublished(last.bt).files)

\* the objects of the listed bucket with the greatest lastModified
Newest(bucket) ==
    { k \in DOMAIN bucket : \A j \in DOMAIN bucket : bucket[j].t <= bucket[k].t }

\* objects of different checkpoint directories lie in different seconds
DirsInDistinctSeconds(bucket) ==
    \A j, k \in DOMAIN bucket :
        DirSegment(j) # DirSegment(k)
            => Seconds(bucket[j].t) # Seconds(bucket[k].t)

\* C2 (as claimed): when the bucket holds objects of two or more checkpoint
\* directories (written in different seconds), what download_checkpoints
\* selects is exactly the objects whose directory segment equals that of
\* the newest object.
C2_SelectsExactlyNewestDir ==
    (/\ last.op = "download"
     /\ last.bt \in Backends
     /\ last.dir # <<>>
     /\ Cardinality({ DirSegment(k) : k \in DOMAIN ListedBucket(last.bt) }) >= 2
     /\ DirsInDistinctSeconds(ListedBucket(last.bt)))
    => \E n \in Newest(ListedBucket(last.bt)) :
          SetOf(last.keys) =
            { k \in DOMAIN ListedBucket(last.bt) : DirSegment(k) = DirSegment(n) }

\* C3 (as claimed): a download_checkpoints call that ends without error
\* returns the local checkpoint directory path <run-name>/<directory-name>.
C3_ReturnsLocalPath ==
    (last.op = "download" /\ last.err = Ok)
        => last.ret = Join(<<training_name, last.dir>>)


\* what download_checkpoints lists is empty
EmptyListing == DOMAIN ListedBucket(loader.bucket_type) = {}

\* the step of download_checkpoints
DownloadStep == pc = "constructed" /\ pc' \in {"downloaded", "aborted"}

\* C4: when the bucket listing is empty, download_checkpoints (s3 or gcs)
\* ends in an error and has written nothing to the local filesystem: no
\* directory created, no file downloaded.
C4_EmptyListingNoWrite ==
    [][(DownloadStep /\ EmptyListing)
          => (pc' = "aborted" /\ last'.err # Ok /\ fs' = fs)]_vars

C4_Witness ==
    /\ last.op = "download"
    /\ last.err \in {"KeyError", "IndexError"}
    /\ DOMAIN ListedBucket(last.bt) = {}

\* C5: constructing CloudCheckpointLoader with a bucket_type other than
\* "s3" or "gcs" fails at construction (no loader is bound, the session
\* ends), so download_checkpoints never runs with an unrecognized type and
\* never reaches its ValueError branch.
C5_InvalidTypeFailsAtInit ==
    /\ [](/\ loader.bound => loader.bucket_type \in Backends
          /\ (last.op = "init" /\ last.bt \notin Backends)
                => (/\ last.err = "AssertionError"
                    /\ pc = "aborted"
                    /\ ~loader.bound)
          /\ last.op = "download"
                => (last.bt \in Backends /\ last.err # "ValueError"))
    /\ [][(last'.op = "init" /\ last'.bt \notin Backends /\ last' # last)
            => UNCHANGED <<fs, s3, gcs>>]_vars

C5_Witness ==
    last.op = "init" /\ last.bt = "azure" /\ last.err = "AssertionError"

\* C6 (as claimed): an on_save call in which no transfer fails issues
\* exactly one upload call per regular file that the checkpoint directory
\* holds, directly or in sub-directories, with the file's path under the
\* run root as the key.
C6_OneUploadPerFile ==
    (last.op = "on_save" /\ last.err \notin NetworkErrors)
        => LET D == DOMAIN FilesUnder(fs, model_checkpoint(last.step))
           IN  SetOf(last.keys) = D /\ Len(last.keys) = Cardinality(D)

\* C7: when a transfer fails during on_save, the error reaches the caller
\* (the training session ends, no later callback is called) and every file
\* uploaded earlier in the call is still in the bucket, with its bytes.
C7_PartialUploadStays ==
    (last.op = "on_save" /\ last.err # Ok)
        => /\ pc = "aborted"
           /\ callbacks = <<>>
           /\ \A i \in 1..(Len(last.keys) - 1) :
                 /\ last.keys[i] \in DOMAIN WrittenBucket(last.bt)
                 /\ WrittenBucket(last.bt)[last.keys[i]].data
                       = fs.files[last.keys[i]]

C7_Witness ==
    /\ last.op = "on_save"
    /\ last.err \in NetworkErrors
    /\ Len(last.keys) = 2
    /\ last.keys[1] \in DOMAIN WrittenBucket(last.bt)
    /\ last.keys[2] \notin DOMAIN WrittenBucket(last.bt)

\* C8: on the resume path the model load is attempted only right after a
\* download_checkpoints that ended without error; after a failed one it is
\* never attempted.
C8_NoLoadAfterFailedDownload ==
    /\ [][(last'.op = "load" /\ last' # last)
            => (pc = "downloaded" /\ last.op = "download" /\ last.err = Ok)]_vars
    /\ [][(last.op = "download" /\ last.err # Ok) => last'.op # "load"]_vars

C8_Witness ==
    /\ last.op = "download"
    /\ last.err \in NetworkErrors \cup {"KeyError", "IndexError"}
    /\ pc = "aborted"
    /\ ~ENABLED from_pretrained

\* the on_save calls of backend b so far all ended without error, for
\* increasing steps (one training run), each at a later time than the last
OneRunPublished(b) ==
    /\ published[b] # <<>>
    /\ \A i \in 1..Len(published[b]) : published[b][i].ok
    /\ \A i \in 1..(Len(published[b]) - 1) :
          /\ published[b][i].step < published[b][i + 1].step
          /\ published[b][i].t < published[b][i + 1].t

\* C9 (as claimed): after successful on_save calls of one training run
\* (distinct steps, increasing timestamps), download_checkpoints (no network
\* failure, the bucket name left as shipped) selects the checkpoint
\* directory of the last on_save call and downloads all of its files.
C9_SelectsLastPublished ==
    (/\ last.op = "download"
     /\ last.bt \in Backends
     /\ faults = 0
     /\ s3_bucket_name = ListedS3Bucket
     /\ OneRunPublished(last.bt))
    => /\ Join(<<training_name, last.dir>>)
             = model_checkpoint(LastPublished(last.bt).step)
       /\ DOMAIN LastPublished(last.bt).files \subseteq SetOf(last.done)

\* every failure one on_save call may meet
AllFaults(n) ==
    { [reachable |-> TRUE, failAt |-> k] : k \in 0..n }
        \cup { [reachable |-> FALSE, failAt |-> 0] }

ConfiguredBucket(b) == IF b = "s3" THEN s3[s3_bucket_name] ELSE gcs

\* C11 (as claimed): whatever name s3_bucket_name is set to,
\* download_checkpoints lists the configured bucket and downloads from it:
\* it reports an empty listing only when the configured bucket is empty, and
\* every key it selects and downloads is a key of the configured bucket.
C11_ListsConfiguredBucket ==
    (last.op = "download" /\ last.bt \in Backends)
    => /\ last.err \in {"KeyError", "IndexError"}
             => DOMAIN ConfiguredBucket(last.bt) = {}
       /\ SetOf(last.keys) \subseteq DOMAIN ConfiguredBucket(last.bt)
       /\ SetOf(last.done) \subseteq DOMAIN ConfiguredBucket(last.bt)

====
